---- MODULE Spec2Model ----
(***************************************************************************)
(* Model of the presentation-generation workflow state machine             *)
(* (src/src/workflows/main.py), the Director (Inbound) agent that its      *)
(* nodes call (src/src/agents/director_in.py, src/src/agents/base.py) and  *)
(* the part of the WebSocket handler that drives it                        *)
(* (src/src/api/websocket.py).                                             *)
(*                                                                         *)
(* Conventions                                                             *)
(*  - An Optional value is a sequence of length <= 1: << >> is None.       *)
(*  - completeness_score is kept in tenths: 8 stands for 0.8.              *)
(*  - A Python list is a sequence; a dict with fixed keys is a record.     *)
(*  - StateGraph.astream is taken to yield the whole state after each      *)
(*    node, which is what MockWorkflow.astream and every caller in the     *)
(*    repository assume (WorkflowRunner reads state["current_phase"]).     *)
(***************************************************************************)
EXTENDS Integers, Sequences, FiniteSets, TLC

(***************************************************************************)
(* Bounds of the model                                                     *)
(***************************************************************************)
\* generation requests one connection sends
MaxRequests == 2
\* clarification responses fed to one WorkflowState
MaxResponses == 3
\* messages the client sends on one connection
MaxMessages == 3
\* items of a missing_information list
MaxMissing == 6
\* questions in an LLM answer
MaxLlmQuestions == 6
\* clarification rounds issued for one session
MaxRoundsIssued == 5
\* slides of one Presentation
MaxSlides == 3
\* ticks of the clock
MaxTime == 2
\* calls of check_rate_limit for the identifier
MaxCalls == 4

(***************************************************************************)
(* Program constants                                                       *)
(***************************************************************************)
\* acquire_lock: retry_times = 3
retry_times == 3
\* DirectorInboundConfig.min_completeness_score = 0.8, in tenths
min_completeness_score == 8
\* DirectorInboundConfig.max_clarification_rounds
max_clarification_rounds == 3
\* MockWorkflow.astream: max_retries = 3
max_retries == 3
\* _parse_analysis_response: completeness_score=0.5 of the last-resort analysis
default_completeness_score == 5
\* ClarificationRound.current_round default
default_current_round == 1
\* ClarificationRound.max_rounds default
default_max_rounds == 3

(***************************************************************************)
(* Input domains                                                           *)
(***************************************************************************)
\* texts of user_input messages that are not greetings or test commands
Texts == {"Create a presentation about AI", "Create a 10-slide presentation about renewable energy"}

\* completeness scores (tenths) an LLM answer can carry
Scores == {1, 5, 8, 9}

\* exception classes, by the class name that str(type(error)) shows
ExcClasses == {"TimeoutError", "ValidationError", "ImportError",
               "ModuleNotFoundError", "AttributeError", "RuntimeError"}

\* an exception: its class and whether its message mentions
\* "row-level security policy"
Exceptions == [cls : ExcClasses, rls : BOOLEAN]

NoException == [cls |-> "none", rls |-> FALSE]

\* presentation structures: the number of slide outlines and the routing
\* keywords the outlines mention
Structures == { [slide_outlines |-> 0, mentions |-> {}],
                [slide_outlines |-> 2, mentions |-> {"visual"}] }

\* next_agents lists
AgentLists == { << >>,
                <<"ux_architect", "researcher">>,
                <<"ux_architect", "researcher", "visual_designer">> }

\* DirectorInboundOutput values (models/agents.py): every combination of the
\* fields analyze_request reads; clarification_questions is the number of
\* questions, 0 for None or an empty list
DirectorInboundOutputs ==
    [ output_type             : {"analysis", "clarification", "structure"},
      analysis                : {<<5>>, <<9>>},
      clarification_questions : {0, 3},
      initial_structure       : {<< >>} \cup {<<s>> : s \in Structures},
      next_agents             : AgentLists ]

\* texts the greeting fast path of _handle_user_input matches
Greetings == {"hi"}

\* texts that start with "test:" (_handle_test_message); of its commands only
\* "empty" is modelled
TestCommands == {"test: empty"}

\* round ids a client puts in data.response_to
RoundIds == {"round_1"}

\* raw inbound messages, each well formed for its type but for the last two:
\* a new request, a greeting, an answer to a clarification round, a ping
\* (status "ping" is not one of ConnectionMessage's statuses) and a message
\* of an unknown type.  The texts are ones utils.validators accepts.
InboundMessages ==
    {[type |-> "user_input", text |-> t, response_to |-> << >>, status |-> ""] :
        t \in Texts \cup Greetings \cup TestCommands}
    \cup {[type |-> "user_input", text |-> "For executives", response_to |-> <<r>>, status |-> ""] :
        r \in RoundIds}
    \cup {[type |-> "connection", text |-> "", response_to |-> << >>, status |-> "ping"],
          [type |-> "bogus", text |-> "", response_to |-> << >>, status |-> ""]}

\* slide ids (Slide.slide_id)
SlideIds == {"slide_a", "slide_b", "slide_c"}

\* concurrent callers of one RedisCache resource
Callers == {"caller_1", "caller_2"}

\* a caller outside acquire_lock and release_lock
\*   pc      : idle, acquiring (in the retry loop), holding (acquire_lock
\*             returned its token), failed (acquire_lock returned None)
\*   token   : the lock_token of its acquire_lock call (Optional)
\*   attempts: passes of the retry loop made
\*   released: what its last release_lock returned
no_call == [pc |-> "idle", token |-> << >>, attempts |-> 0, released |-> "none"]

\* check_rate_limit(identifier, limit, window_seconds): the limit
limit == 2
\* check_rate_limit(identifier, limit, window_seconds): the window, in ticks
window_seconds == 2

\* a caller outside check_rate_limit
\*   pc           : idle, removed (old entries removed), counted (entries
\*                  counted and below the limit)
\*   now          : the timestamp its call read (Optional)
\*   current_count: what zcard returned
\*   result       : what its last call returned (Optional)
no_check == [pc |-> "idle", now |-> << >>, current_count |-> 0, result |-> << >>]

\* websocket ids of the connections
WebSockets == {"ws_1", "ws_2"}

\* session ids a token can carry
SessionIds == {"session_a"}

\* websocket_endpoint before websocket.accept(): no handler yet.
\*   pc          : new, authenticated, initialized, loop (awaiting
\*                 receive_json), workflow (awaiting a workflow run), closed
\*   token       : token_data.session_id (Optional)
\*   session_id, initialized : the handler's fields
\*   restored    : the store initialize found the token's session in
\*                 (redis, supabase), "absent" when no store holds it,
\*                 "unread" when a store holds it but its read failed
\*   created     : initialize called _create_session
\*   store_failed: a call to a session store failed on this connection
\*   sent        : messages sent before the message loop is entered
\*   processed   : messages _process_message was called with
\*   disconnects : calls of connection_manager.disconnect for the connection
no_handler ==
    [ pc |-> "new", token |-> << >>, session_id |-> << >>, initialized |-> FALSE,
      restored |-> "none", created |-> FALSE, store_failed |-> FALSE,
      sent |-> << >>, processed |-> 0, disconnects |-> 0 ]

VARIABLES
    LANGGRAPH_AVAILABLE,    \* workflows/main.py module flag: StateGraph found
    PYDANTIC_AI_AVAILABLE,  \* agents/base.py module flag and ai_agent is not None
    workflow_state,         \* WebSocketHandler.workflow_state (Optional)
    st,                     \* the state a running astream works on (Optional)
    node,                   \* position of the running workflow, "idle" if none
    entry,                  \* which runner method started the run
    cache,                  \* analysis cache: text -> Optional score
    requests,               \* number of start_generation calls so far
    hist,                   \* history of the state in st (for the properties)
    whist,                  \* history of the state in workflow_state (for the properties)
    \* one connection's message loop (WebSocketHandler.handle_connection)
    inbound,                \* messages the client sent that receive_json has not returned yet
    arrived,                \* number of messages the client sent on the connection
    received,               \* number of messages receive_json returned
    loop,                   \* "receive": awaiting receive_json; "process": awaiting _process_message
    message,                \* the message _process_message was last called with (Optional)
    outbound,               \* messages sent to the client since that call
    \* several connections (websocket_endpoint) over the session stores
    redis_sessions,         \* session ids Redis holds a "session:<id>" key for
    supabase_sessions,      \* session ids with an unexpired row in Supabase's sessions table
    active_connections,     \* ConnectionManager.active_connections (its keys)
    session_mapping,        \* ConnectionManager.session_mapping: websocket_id -> Optional session_id
    handlers,               \* websocket_id -> the endpoint's position and its WebSocketHandler
    \* components exercised on their own
    mock_llm,               \* the LLM a test patches in: Optional function text -> score
    clarification_history,  \* DirectorInboundAgent.clarification_history: session -> rounds
    director_output,        \* what the Director's last call returned (Optional)
    rounds_issued,          \* rounds issued per session by all Director instances (for the properties)
    slides,                 \* Presentation.slides of one Presentation object
    slides_result,          \* how the last call on the Presentation ended
    clock,                  \* datetime.utcnow().timestamp(), in ticks of its resolution
    lock_value,             \* the value Redis holds under lock_key (Optional)
    lock_callers,           \* caller -> its position in acquire_lock / release_lock
    foreign_release,        \* a release_lock deleted a lock another caller had set (for the properties)
    rate_entries,           \* members of the sorted set rate_limit:{identifier} (member = score = timestamp)
    rate_callers,           \* caller -> its position in check_rate_limit
    rate_admitted,          \* timestamp -> calls of that timestamp that returned (True, n) (for the properties)
    rate_calls,             \* calls of check_rate_limit begun
    state_before            \* the handler's workflow_state when the message in process was received (for the properties)

\* the two module flags, fixed when the modules are imported
build == <<LANGGRAPH_AVAILABLE, PYDANTIC_AI_AVAILABLE>>

\* the state of one connection's message loop
handler == <<inbound, arrived, received, loop, message, outbound, state_before>>

\* the state of the connections and the session stores
connections == <<redis_sessions, supabase_sessions, active_connections,
                 session_mapping, handlers>>

\* the state of the components exercised on their own
components == <<mock_llm, clarification_history, director_output, rounds_issued,
               slides, slides_result, clock, lock_value, lock_callers, foreign_release,
               rate_entries, rate_callers, rate_admitted, rate_calls>>

\* the Director instance and the rounds it issued
director == <<clarification_history, director_output, rounds_issued>>

\* one Presentation object
presentation == <<slides, slides_result>>

\* one lock resource in Redis and its callers
locking == <<lock_value, lock_callers, foreign_release>>

\* the rate limit of one identifier and its callers
rate_limiting == <<rate_entries, rate_callers, rate_admitted, rate_calls>>

\* the state of the workflow and its histories
workflow_vars == <<workflow_state, st, node, entry, cache, requests, hist, whist>>

vars == <<LANGGRAPH_AVAILABLE, PYDANTIC_AI_AVAILABLE, workflow_state, st,
          node, entry, cache, requests, hist, whist,
          inbound, arrived, received, loop, message, outbound,
          redis_sessions, supabase_sessions, active_connections,
          session_mapping, handlers, mock_llm,
          clarification_history, director_output, rounds_issued,
          slides, slides_result, clock, lock_value, lock_callers, foreign_release,
          rate_entries, rate_callers, rate_admitted, rate_calls, state_before>>

(***************************************************************************)
(* WorkflowState                                                           *)
(***************************************************************************)
\* WorkflowRunner.start_generation: the initial_state literal
initial_state(text, req) ==
    [ request_id              |-> req,
      user_input              |-> text,
      clarification_rounds    |-> << >>,
      clarification_responses |-> << >>,
      requirement_analysis    |-> << >>,
      presentation_structure  |-> << >>,
      final_presentation      |-> << >>,
      current_phase           |-> "analysis",
      needs_clarification     |-> FALSE,
      active_agents           |-> << >>,
      completed_agents        |-> << >>,
      agent_errors            |-> << >>,
      \* not a key of initial_state: read with state.get("error_count", 0)
      error_count             |-> 0 ]

\* keys declared Annotated[..., operator.add] in the WorkflowState TypedDict
ReducerKeys == {"clarification_rounds", "clarification_responses"}

\* MockWorkflow: state.update(updates) replaces every key of the update
dict_update(state, updates) ==
    [k \in DOMAIN state |->
        IF k \in DOMAIN updates THEN updates[k] ELSE state[k]]

\* compiled StateGraph: an update of a reducer key is added to the old value
graph_update(state, updates) ==
    [k \in DOMAIN state |->
        IF k \in DOMAIN updates
        THEN IF k \in ReducerKeys THEN state[k] \o updates[k] ELSE updates[k]
        ELSE state[k]]

apply_update(graph, state, updates) ==
    IF graph THEN graph_update(state, updates) ELSE dict_update(state, updates)

(***************************************************************************)
(* Director (Inbound) agent                                                *)
(***************************************************************************)
\* DirectorInboundAgent._parse_analysis_response on a reply that is not JSON
parse_analysis_response == default_completeness_score

\* variant of analyze_user_request whose threshold test is <= instead of <
analyze_user_request_le(score) ==
    IF score <= min_completeness_score
    THEN [ output_type             |-> "clarification",
           analysis                |-> <<score>>,
           clarification_questions |-> 0,
           initial_structure       |-> << >>,
           next_agents             |-> << >> ]
    ELSE [ output_type             |-> "structure",
           analysis                |-> <<score>>,
           clarification_questions |-> 0,
           initial_structure       |-> << >>,
           next_agents             |-> <<"ux_architect", "researcher">> ]

\* DirectorInboundAgent._analyze_user_request, from "Determine next step":
\* the DirectorInboundOutput built from the analysis' completeness score
analyze_user_request(score) ==
    IF score < min_completeness_score
    THEN [ output_type             |-> "clarification",
           analysis                |-> <<score>>,
           clarification_questions |-> 0,
           initial_structure       |-> << >>,
           next_agents             |-> << >> ]
    ELSE [ output_type             |-> "structure",
           analysis                |-> <<score>>,
           clarification_questions |-> 0,
           initial_structure       |-> << >>,
           next_agents             |-> <<"ux_architect", "researcher">> ]

(***************************************************************************)
(* Workflow nodes                                                          *)
(***************************************************************************)
\* ClarificationRound(questions=...) as the nodes build it: current_round
\* and max_rounds are left to their defaults
new_round(questions) ==
    [ questions     |-> questions,
      max_rounds    |-> default_max_rounds,
      current_round |-> default_current_round ]

\* analyze_request, from "Update state based on result": the updates dict.
\* The greeting branch is not modelled here: DirectorInboundOutput.output_type
\* is Literal["analysis", "clarification", "structure"].
analyze_request(result) ==
    IF result.output_type = "clarification"
    THEN IF result.clarification_questions > 0
         THEN [ requirement_analysis |-> result.analysis,
                needs_clarification  |-> TRUE,
                current_phase        |-> "clarification",
                clarification_rounds |-> <<new_round(result.clarification_questions)>> ]
         ELSE [ requirement_analysis |-> result.analysis,
                needs_clarification  |-> TRUE,
                current_phase        |-> "clarification" ]
    ELSE [ requirement_analysis   |-> result.analysis,
           needs_clarification    |-> FALSE,
           current_phase          |-> "generation",
           presentation_structure |-> result.initial_structure,
           active_agents          |-> result.next_agents ]

\* generate_clarifications
generate_clarifications == [ current_phase |-> "clarification" ]

\* create_structure: TRUE when the node returns early because the state
\* already holds a structure.  Otherwise it goes on to AgentContext(...), a
\* name workflows/main.py binds only inside analyze_request (the local import
\* "from ..agents.base import AgentContext"), so the call raises NameError.
create_structure_returns(state) == state.presentation_structure # << >>

\* create_structure, "Already have structure" branch: only updated_at changes
create_structure(state) == [ current_phase |-> state.current_phase ]

\* the NameError create_structure raises without a structure
name_error == [cls |-> "NameError", rls |-> FALSE]

\* variant of run_parallel_agents that reports no agent as completed
run_parallel_agents_none_completed(state) ==
    [ completed_agents |-> << >>,
      current_phase    |-> "assembly" ]

\* run_parallel_agents: the updates dict (the simulated layouts and research
\* findings are left out)
run_parallel_agents(state) ==
    [ completed_agents |-> state.active_agents,
      current_phase    |-> "assembly" ]

\* Presentation.validate_minimum_slides on the slides assemble_presentation
\* builds, one per slide outline, numbered by enumerate(..., 1)
assemble_presentation_valid(state) ==
    /\ state.presentation_structure # << >>
    /\ state.presentation_structure[1].slide_outlines >= 1

\* assemble_presentation: the updates dict; the presentation is kept as the
\* list of its slides' slide_number values
assemble_presentation(state) ==
    [ final_presentation |-> <<[i \in 1..state.presentation_structure[1].slide_outlines |-> i]>>,
      current_phase      |-> "completed" ]

\* the ValueError Presentation raises for an empty slide list
value_error == [cls |-> "ValueError", rls |-> FALSE]

\* all_agents_complete (defined in workflows/main.py; create_workflow adds the
\* edge generate -> assemble without it)
all_agents_complete(state) ==
    LET active    == {state.active_agents[i] : i \in DOMAIN state.active_agents}
        completed == {state.completed_agents[i] : i \in DOMAIN state.completed_agents}
    IN IF active \subseteq completed THEN "assemble" ELSE "wait"

\* should_clarify
should_clarify(state) ==
    IF state.needs_clarification THEN "clarify" ELSE "structure"

(***************************************************************************)
(* MockWorkflow error handling                                             *)
(***************************************************************************)
\* MockWorkflow._is_recoverable_error; the tests are made in the code's order
is_recoverable_error(error) ==
    IF error.rls THEN TRUE
    ELSE IF error.cls = "ValidationError" THEN TRUE
    ELSE IF error.cls \in {"TimeoutError", "ConnectionError", "HTTPError", "RequestException"} THEN TRUE
    ELSE IF error.cls \in {"ImportError", "ModuleNotFoundError", "AttributeError"} THEN FALSE
    ELSE TRUE

\* variant of error_update that counts from zero at every failure instead of
\* from the state's error_count
error_update_count_restarts(state, error) ==
    LET error_count == 0 + 1 IN
    IF error_count < max_retries /\ is_recoverable_error(error)
    THEN [ current_phase |-> "error_recovery",
           error_count   |-> error_count ]
    ELSE [ current_phase |-> "error",
           error_count   |-> error_count,
           agent_errors  |-> <<"workflow">> ]

\* variant of error_update that still retries at the cap (<= instead of <)
error_update_retry_at_cap(state, error) ==
    LET error_count == state.error_count + 1 IN
    IF error_count <= max_retries /\ is_recoverable_error(error)
    THEN [ current_phase |-> "error_recovery",
           error_count   |-> error_count ]
    ELSE [ current_phase |-> "error",
           error_count   |-> error_count,
           agent_errors  |-> <<"workflow">> ]

\* MockWorkflow.astream, the except branch: the dict given to state.update
error_update(state, error) ==
    LET error_count == state.error_count + 1 IN
    IF error_count < max_retries /\ is_recoverable_error(error)
    THEN [ current_phase |-> "error_recovery",
           error_count   |-> error_count ]
    ELSE [ current_phase |-> "error",
           error_count   |-> error_count,
           agent_errors  |-> <<"workflow">> ]

(***************************************************************************)
(* History kept for the properties (not program state)                     *)
(***************************************************************************)
\* step      : the last step taken on the WorkflowState
\* caught    : failures MockWorkflow.astream caught on this WorkflowState
\* failed    : steps that raised on this WorkflowState, caught or not
\* analyses  : analyses that returned normally on this WorkflowState
\* max_score : largest completeness score among them (0 if none)
\* error     : the exception of the last failing step
\* llm_failed: the last failing step failed inside run_llm
hist0 ==
    [ step |-> "none", caught |-> 0, failed |-> 0, analyses |-> 0,
      max_score |-> 0, error |-> NoException, llm_failed |-> FALSE ]

\* the workflow before any request: no WorkflowState, an empty analysis cache
InitWorkflow ==
    /\ LANGGRAPH_AVAILABLE \in BOOLEAN
    /\ PYDANTIC_AI_AVAILABLE \in BOOLEAN
    /\ workflow_state = << >>
    /\ st = << >>
    /\ node = "idle"
    /\ entry = "none"
    /\ cache = [t \in Texts |-> << >>]
    /\ requests = 0
    /\ hist = hist0
    /\ whist = hist0

\* handle_connection entering its message loop
InitHandler ==
    /\ inbound = << >>
    /\ arrived = 0
    /\ received = 0
    /\ loop = "receive"
    /\ message = << >>
    /\ outbound = << >>
    /\ state_before = << >>

\* ConnectionManager.__init__ and empty session stores
InitNoConnections ==
    /\ redis_sessions = {}
    /\ supabase_sessions = {}
    /\ active_connections = {}
    /\ session_mapping = [ws \in WebSockets |-> << >>]
    /\ handlers = [ws \in WebSockets |-> no_handler]

\* no component is exercised on its own and the LLM is the real one
InitDirector ==
    /\ clarification_history = [s \in SessionIds |-> << >>]
    /\ director_output = << >>
    /\ rounds_issued = [s \in SessionIds |-> 0]

\* no Presentation object is exercised
InitNoPresentation ==
    /\ slides = << >>
    /\ slides_result = "none"

\* RedisCache with no lock set and no call in progress
InitRedisCache ==
    /\ clock = 0
    /\ lock_value = << >>
    /\ lock_callers = [c \in Callers |-> no_call]
    /\ foreign_release = FALSE
    /\ rate_entries = {}
    /\ rate_callers = [c \in Callers |-> no_check]
    /\ rate_admitted = [t \in 0..MaxTime |-> 0]
    /\ rate_calls = 0

InitComponents ==
    /\ mock_llm = << >>
    /\ InitDirector
    /\ InitNoPresentation
    /\ InitRedisCache

Init == InitWorkflow /\ InitHandler /\ InitNoConnections /\ InitComponents

Max(a, b) == IF a > b THEN a ELSE b

(***************************************************************************)
(* Handler and runner                                                      *)
(***************************************************************************)
\* WebSocketHandler._start_presentation_generation calling
\* WorkflowRunner.start_generation: a fresh state enters the workflow
StartGeneration ==
    /\ node = "idle"
    /\ requests < MaxRequests
    /\ \E text \in Texts :
          st' = <<initial_state(text, requests + 1)>>
    /\ requests' = requests + 1
    /\ node' = "analyze"
    /\ entry' = "start_generation"
    /\ hist' = hist0
    /\ UNCHANGED <<build, components, handler, connections, workflow_state, cache, whist>>

\* WebSocketHandler._handle_clarification_response with a workflow state,
\* calling WorkflowRunner.process_clarification: the response is appended to
\* the handler's state in place and the workflow is run again on that state
ProcessClarification ==
    /\ node = "idle"
    /\ workflow_state # << >>
    /\ Len(workflow_state[1].clarification_responses) < MaxResponses
    /\ LET appended == [workflow_state[1] EXCEPT
                          !.clarification_responses = Append(@, "response")]
       IN /\ workflow_state' = <<appended>>
          /\ st' = <<appended>>
    /\ node' = "analyze"
    /\ entry' = "process_clarification"
    /\ hist' = [whist EXCEPT !.step = "enter"]
    /\ UNCHANGED <<build, components, handler, connections, cache, requests, whist>>

\* variant of AnalysisOutcomes in which a cached analysis cannot be rebuilt
\* and the last-resort analysis is used for it
AnalysisOutcomes_cached_unparsed(text) ==
    IF cache[text] # << >> THEN {parse_analysis_response}
    ELSE IF PYDANTIC_AI_AVAILABLE
    THEN IF mock_llm # << >> THEN {mock_llm[1][text]}
         ELSE Scores \cup {parse_analysis_response}
    ELSE {parse_analysis_response}

\* The analysis a call of _analyze_user_request obtains: the cached one, or
\* the one _run_requirement_analysis gets from run_llm
AnalysisOutcomes(text) ==
    IF cache[text] # << >> THEN {cache[text][1]}
    ELSE IF PYDANTIC_AI_AVAILABLE
    THEN IF mock_llm # << >> THEN {mock_llm[1][text]}
         ELSE Scores \cup {parse_analysis_response}
    ELSE {parse_analysis_response}

\* node "analyze" (the only step of MockWorkflow.astream): analyze_request
\* returns normally
Analyze ==
    /\ node = "analyze"
    /\ LET state == st[1] IN
       \E score \in AnalysisOutcomes(state.user_input) :
          LET result == analyze_user_request(score)
              new    == apply_update(LANGGRAPH_AVAILABLE, state, analyze_request(result))
          IN /\ st' = <<new>>
             /\ cache' = [cache EXCEPT ![state.user_input] = <<score>>]
             /\ node' = IF LANGGRAPH_AVAILABLE THEN should_clarify(new) ELSE "return"
             /\ hist' = [hist EXCEPT !.step = "analyze",
                                     !.analyses = @ + 1,
                                     !.max_score = Max(@, score)]
    /\ UNCHANGED <<build, components, handler, connections, workflow_state, entry, requests, whist>>

\* node "analyze" with the Director replaced by a stand-in that may return
\* any DirectorInboundOutput: analyze_request as a unit, for the nodes the
\* Director of director_in.py never lets the workflow reach
AnalyzeWithOutput ==
    /\ node = "analyze"
    /\ \E result \in DirectorInboundOutputs :
          LET new == apply_update(LANGGRAPH_AVAILABLE, st[1], analyze_request(result))
          IN /\ st' = <<new>>
             /\ node' = IF LANGGRAPH_AVAILABLE THEN should_clarify(new) ELSE "return"
             /\ hist' = [hist EXCEPT !.step = "analyze"]
    /\ UNCHANGED <<build, components, handler, connections, workflow_state, entry, cache, requests, whist>>

\* node "analyze": run_llm raises (BaseAgent.run_llm re-raises what
\* ai_agent.run raised, and BaseAgent.execute re-raises it).  MockWorkflow
\* catches it; a compiled graph lets it out of astream.
AnalyzeFails ==
    /\ node = "analyze"
    /\ PYDANTIC_AI_AVAILABLE
    /\ cache[st[1].user_input] = << >>
    /\ \E error \in Exceptions :
          /\ hist' = [hist EXCEPT !.step = "analyze_failed",
                                  !.caught = IF LANGGRAPH_AVAILABLE THEN @ ELSE @ + 1,
                                  !.failed = @ + 1,
                                  !.error = error,
                                  !.llm_failed = TRUE]
          /\ IF LANGGRAPH_AVAILABLE
             THEN /\ node' = "raise"
                  /\ st' = st
             ELSE /\ node' = "return"
                  /\ st' = <<dict_update(st[1], error_update(st[1], error))>>
    /\ UNCHANGED <<build, components, handler, connections, workflow_state, entry, cache, requests, whist>>

\* node "clarify" of the compiled graph, followed by END
Clarify ==
    /\ node = "clarify"
    /\ st' = <<apply_update(LANGGRAPH_AVAILABLE, st[1], generate_clarifications)>>
    /\ node' = "return"
    /\ hist' = [hist EXCEPT !.step = "clarify"]
    /\ UNCHANGED <<build, components, handler, connections, workflow_state, entry, cache, requests, whist>>

\* node "structure" of the compiled graph: create_structure
Structure ==
    /\ node = "structure"
    /\ IF create_structure_returns(st[1])
       THEN /\ st' = <<apply_update(LANGGRAPH_AVAILABLE, st[1], create_structure(st[1]))>>
            /\ node' = "generate"
            /\ hist' = [hist EXCEPT !.step = "structure"]
       ELSE /\ st' = st
            /\ node' = "raise"
            /\ hist' = [hist EXCEPT !.step = "structure_failed",
                                    !.failed = @ + 1,
                                    !.error = name_error,
                                    !.llm_failed = FALSE]
    /\ UNCHANGED <<build, components, handler, connections, workflow_state, entry, cache, requests, whist>>

\* node "generate" of the compiled graph: run_parallel_agents
Generate ==
    /\ node = "generate"
    /\ st' = <<apply_update(LANGGRAPH_AVAILABLE, st[1], run_parallel_agents(st[1]))>>
    /\ node' = "assemble"
    /\ hist' = [hist EXCEPT !.step = "generate"]
    /\ UNCHANGED <<build, components, handler, connections, workflow_state, entry, cache, requests, whist>>

\* node "assemble" of the compiled graph: assemble_presentation, then END
Assemble ==
    /\ node = "assemble"
    /\ IF assemble_presentation_valid(st[1])
       THEN /\ st' = <<apply_update(LANGGRAPH_AVAILABLE, st[1], assemble_presentation(st[1]))>>
            /\ node' = "return"
            /\ hist' = [hist EXCEPT !.step = "assemble"]
       ELSE /\ st' = st
            /\ node' = "raise"
            /\ hist' = [hist EXCEPT !.step = "assemble_failed",
                                    !.failed = @ + 1,
                                    !.error = value_error,
                                    !.llm_failed = FALSE]
    /\ UNCHANGED <<build, components, handler, connections, workflow_state, entry, cache, requests, whist>>

\* the runner method returns the last state astream yielded and the handler
\* stores it in self.workflow_state
Return ==
    /\ node = "return"
    /\ workflow_state' = st
    /\ whist' = [hist EXCEPT !.step = "return", !.error = NoException, !.llm_failed = FALSE]
    /\ st' = << >>
    /\ node' = "idle"
    /\ hist' = hist0
    /\ UNCHANGED <<build, components, handler, connections, entry, cache, requests>>

\* an exception leaves the runner method: self.workflow_state is not
\* assigned (after process_clarification it is the state the run failed on)
Raise ==
    /\ node = "raise"
    /\ whist' = IF entry = "process_clarification"
                THEN [hist EXCEPT !.step = "raise", !.error = NoException, !.llm_failed = FALSE]
                ELSE whist
    /\ st' = << >>
    /\ node' = "idle"
    /\ hist' = hist0
    /\ UNCHANGED <<build, components, handler, connections, workflow_state, entry, cache, requests>>

\* the cached analysis of a text expires (set with ttl=3600)
CacheExpire ==
    /\ \E t \in Texts :
          /\ cache[t] # << >>
          /\ cache' = [cache EXCEPT ![t] = << >>]
    /\ UNCHANGED <<build, components, handler, connections, workflow_state, st, node, entry, requests, hist, whist>>

Next ==
    \/ StartGeneration
    \/ ProcessClarification
    \/ Analyze
    \/ AnalyzeFails
    \/ Clarify
    \/ Structure
    \/ Return
    \/ Raise
    \/ CacheExpire

Spec == Init /\ [][Next]_vars

\* The workflow nodes and the graph of create_workflow, run against a
\* stand-in Director
NextNodes ==
    \/ StartGeneration
    \/ ProcessClarification
    \/ AnalyzeWithOutput
    \/ Clarify
    \/ Structure
    \/ Generate
    \/ Assemble
    \/ Return
    \/ Raise

\* nothing in NextNodes reads PYDANTIC_AI_AVAILABLE: the stand-in Director
\* makes no LLM call
InitNodes == Init /\ ~PYDANTIC_AI_AVAILABLE

SpecNodes == InitNodes /\ [][NextNodes]_vars

\* the whole workflow with the LLM patched by a deterministic stub, as the
\* tests do: an analysis that is not cached is the stub's answer for the text
InitMockedLlm ==
    /\ InitWorkflow
    /\ InitHandler
    /\ InitNoConnections
    /\ mock_llm \in {<<f>> : f \in [Texts -> Scores]}
    /\ InitDirector
    /\ InitNoPresentation
    /\ InitRedisCache

SpecMockedLlm == InitMockedLlm /\ [][Next]_vars

(***************************************************************************)
(* One connection's message loop (api/websocket.py)                        *)
(***************************************************************************)
\* validate_message: TRUE when the raw message parses.  A type outside
\* type_mapping raises ValueError; ConnectionMessage(**message_dict) raises
\* pydantic's ValidationError (a ValueError) for a status outside its Literal.
validate_message(raw) ==
    IF raw.type \notin {"user_input", "director_message", "agent_message",
                        "frontend_action", "system", "connection"}
    THEN FALSE
    ELSE IF raw.type = "connection"
    THEN raw.status \in {"connected", "authenticated", "disconnected", "error"}
    ELSE TRUE

\* an outbound message, reduced to what tells the handler's messages apart:
\* a SystemMessage by its level and code, a DirectorMessage by chat_data.type
\* (as level, "" without chat_data), the context it is sent in (as code) and
\* whether it has slide_data; text is the str(e) of an exception the message
\* quotes ("" when it quotes none); cause is the number of the inbound
\* message whose processing sent it
\* _send_error(message, code): code or "ERROR"
send_error(code, cause) ==
    [type |-> "system", level |-> "error", code |-> code, text |-> "",
     slide_data |-> FALSE, cause |-> cause]

\* _send_error(f"Processing error: {str(e)}") and _send_error(str(e), code)
send_error_str(code, text, cause) ==
    [type |-> "system", level |-> "error", code |-> code, text |-> text,
     slide_data |-> FALSE, cause |-> cause]

\* _send_chat_message(message_type, content, ...)
send_chat_message(message_type, context, cause) ==
    [type |-> "director_message", level |-> message_type, code |-> context,
     text |-> "", slide_data |-> FALSE, cause |-> cause]

\* _start_presentation_generation, "except Exception as workflow_error": the
\* chat message of type "error" whose content has "error": str(workflow_error)
send_workflow_error(text, cause) ==
    [type |-> "director_message", level |-> "error", code |-> "workflow_error",
     text |-> text, slide_data |-> FALSE, cause |-> cause]

\* _send_presentation: a DirectorMessage with slide_data and a chat_data of
\* type "summary"
send_presentation(cause) ==
    [type |-> "director_message", level |-> "summary", code |-> "completed",
     text |-> "", slide_data |-> TRUE, cause |-> cause]

\* str(e) of the exceptions of the model
str(error) ==
    IF error.cls = "NameError" THEN "name 'AgentContext' is not defined"
    ELSE IF error.cls = "ValueError" THEN "Presentation must have at least one slide"
    ELSE IF error.rls THEN "new row violates row-level security policy"
    ELSE "request failed"

\* exception classes that are ValueError or a subclass of it (pydantic's
\* ValidationError is one)
ValueErrors == {"ValueError", "ValidationError"}

\* DirectorMessage(slide_data=..., chat_data=...): TRUE when the model is
\* built.  An argument is "omitted", "None" or "value".  The field validator
\* validate_at_least_one_data raises only when it runs on chat_data, and
\* pydantic does not run a field validator on a field left to its default.
DirectorMessage(slide_data, chat_data) ==
    ~(chat_data = "None" /\ slide_data \in {"omitted", "None"})

\* the DirectorMessage _handle_test_message builds for "test: empty", as
\* websocket.send_json sends it: neither chat_data nor slide_data
send_empty_director_message(cause) ==
    [type |-> "director_message", level |-> "", code |-> "", text |-> "",
     slide_data |-> FALSE, cause |-> cause]

\* _handle_workflow_state: the messages it sends for self.workflow_state
handle_workflow_state(state, cause) ==
    IF state = << >> THEN << >>
    ELSE LET phase == state[1].current_phase IN
         IF phase = "greeting"
         THEN <<send_chat_message("info", "greeting", cause)>>
         ELSE IF phase = "clarification"
         THEN IF state[1].clarification_rounds # << >>
              THEN <<send_chat_message("question", "clarification", cause)>>
              ELSE << >>
         ELSE IF phase = "generation"
         THEN <<send_chat_message("info", "generation", cause)>>
         ELSE IF phase = "completed"
         THEN IF state[1].final_presentation # << >>
              THEN <<send_presentation(cause)>>
              ELSE <<send_error("ERROR", cause)>>
         ELSE << >>

\* variant of receive_json_ready in which _process_message is not awaited:
\* the loop is back at receive_json while a message is still being processed
receive_json_ready_not_awaited == TRUE

\* handle_connection's loop is at "await self.websocket.receive_json()":
\* the "await self._process_message(raw_message)" of the previous iteration
\* has returned
receive_json_ready == loop = "receive"

\* the client sends a message; it waits in the socket until receive_json
\* returns it
ClientSend ==
    /\ arrived < MaxMessages
    /\ \E raw \in InboundMessages :
          inbound' = Append(inbound, [raw |-> raw, seq |-> arrived + 1])
    /\ arrived' = arrived + 1
    /\ UNCHANGED <<build, components, connections, workflow_state, st, node, entry, cache,
                   requests, hist, whist, received, loop, message, outbound, state_before>>

\* receive_json returns the oldest waiting message and _process_message is
\* called with it
receive_json ==
    /\ receive_json_ready
    /\ inbound # << >>
    /\ inbound' = Tail(inbound)
    /\ received' = received + 1
    /\ message' = <<Head(inbound)>>
    /\ state_before' = workflow_state
    /\ UNCHANGED arrived

\* str(e) of the ValueError validate_message raises for a message: its own
\* for an unknown type, pydantic's for a message its model rejects
validation_error(raw) ==
    IF raw.type \notin {"user_input", "director_message", "agent_message",
                        "frontend_action", "system", "connection"}
    THEN "Unknown message type"
    ELSE "validation error"

\* variant of ProcessInvalidMessage that drops the message without an answer
ProcessInvalidMessageDropped ==
    /\ receive_json
    /\ ~validate_message(Head(inbound).raw)
    /\ outbound' = << >>
    /\ UNCHANGED <<build, components, connections, workflow_state, st, node, entry, cache,
                   requests, hist, whist, loop>>

\* _process_message, "except ValueError": validate_message raised
ProcessInvalidMessage ==
    /\ receive_json
    /\ ~validate_message(Head(inbound).raw)
    /\ outbound' = <<send_error_str("ERROR", validation_error(Head(inbound).raw), received')>>
    /\ UNCHANGED <<build, components, connections, workflow_state, st, node, entry, cache,
                   requests, hist, whist, loop>>

\* _handle_user_input, the direct greeting response
HandleGreeting ==
    /\ receive_json
    /\ validate_message(Head(inbound).raw)
    /\ Head(inbound).raw.type = "user_input"
    /\ Head(inbound).raw.text \in Greetings
    /\ outbound' = <<send_chat_message("info", "greeting_fallback", received')>>
    /\ UNCHANGED <<build, components, connections, workflow_state, st, node, entry, cache,
                   requests, hist, whist, loop>>

\* _handle_user_input -> _handle_test_message, command "empty": a
\* DirectorMessage is built with neither chat_data nor slide_data and sent;
\* a validation error is answered with _send_error
HandleTestMessage ==
    /\ receive_json
    /\ validate_message(Head(inbound).raw)
    /\ Head(inbound).raw.type = "user_input"
    /\ Head(inbound).raw.text \notin Greetings
    /\ Head(inbound).raw.text \in TestCommands
    /\ outbound' = IF DirectorMessage("omitted", "omitted")
                   THEN <<send_empty_director_message(received')>>
                   ELSE <<send_error_str("ERROR", "Either slide_data or chat_data must be provided", received')>>
    /\ UNCHANGED <<build, components, connections, workflow_state, st, node, entry, cache,
                   requests, hist, whist, loop>>

\* _handle_user_input -> _handle_clarification_response without a workflow
\* state: NO_WORKFLOW
HandleClarificationResponseNoWorkflow ==
    /\ receive_json
    /\ validate_message(Head(inbound).raw)
    /\ Head(inbound).raw.type = "user_input"
    /\ Head(inbound).raw.text \notin Greetings \cup TestCommands
    /\ Head(inbound).raw.response_to # << >>
    /\ workflow_state = << >>
    /\ outbound' = <<send_error("NO_WORKFLOW", received')>>
    /\ UNCHANGED <<build, components, connections, workflow_state, st, node, entry, cache,
                   requests, hist, whist, loop>>

\* _handle_user_input -> _handle_clarification_response with a workflow
\* state, up to the await of WorkflowRunner.process_clarification's first
\* step: the response is appended whatever round its round_id names
HandleClarificationResponse ==
    /\ receive_json
    /\ validate_message(Head(inbound).raw)
    /\ Head(inbound).raw.type = "user_input"
    /\ Head(inbound).raw.text \notin Greetings \cup TestCommands
    /\ Head(inbound).raw.response_to # << >>
    /\ workflow_state # << >>
    /\ LET appended == [workflow_state[1] EXCEPT
                          !.clarification_responses = Append(@, "response")]
       IN /\ workflow_state' = <<appended>>
          /\ st' = <<appended>>
    /\ node' = "analyze"
    /\ entry' = "process_clarification"
    /\ hist' = [whist EXCEPT !.step = "enter"]
    /\ loop' = "process"
    /\ outbound' = << >>
    /\ UNCHANGED <<build, components, connections, cache, requests, whist>>

\* _handle_user_input -> _start_presentation_generation, up to the await of
\* WorkflowRunner.start_generation's first step: the acknowledgment is sent
\* and a fresh state enters the workflow
StartPresentationGeneration ==
    /\ receive_json
    /\ validate_message(Head(inbound).raw)
    /\ Head(inbound).raw.type = "user_input"
    /\ Head(inbound).raw.text \notin Greetings \cup TestCommands
    /\ Head(inbound).raw.response_to = << >>
    /\ st' = <<initial_state(Head(inbound).raw.text, requests + 1)>>
    /\ requests' = requests + 1
    /\ node' = "analyze"
    /\ entry' = "start_generation"
    /\ hist' = hist0
    /\ loop' = "process"
    /\ outbound' = <<send_chat_message("info", "analysis", received')>>
    /\ UNCHANGED <<build, components, connections, workflow_state, cache, whist>>

\* the runner method returns: the handler stores the state, and
\* _handle_workflow_state sends the message of its phase; _process_message
\* returns
HandleWorkflowState ==
    /\ node = "return"
    /\ loop = "process"
    /\ workflow_state' = st
    /\ whist' = [hist EXCEPT !.step = "return", !.error = NoException, !.llm_failed = FALSE]
    /\ st' = << >>
    /\ node' = "idle"
    /\ hist' = hist0
    /\ outbound' = outbound \o handle_workflow_state(st, received)
    /\ loop' = "receive"
    /\ UNCHANGED <<build, components, connections, entry, cache, requests, inbound,
                   arrived, received, message, state_before>>

\* the messages sent for an exception that left the runner method.  Out of
\* start_generation it is caught in _start_presentation_generation, which
\* sends a chat message of type "error" quoting str(workflow_error).  Out of
\* process_clarification it passes _handle_clarification_response; a
\* ValueError is caught in _handle_user_input (VALIDATION_ERROR), any other
\* in _process_message's "except Exception"; both quote str(e).
workflow_error_messages(from, error, cause) ==
    IF from = "start_generation"
    THEN <<send_workflow_error(str(error), cause)>>
    ELSE IF error.cls \in ValueErrors
    THEN <<send_error_str("VALIDATION_ERROR", str(error), cause)>>
    ELSE <<send_error_str("ERROR", str(error), cause)>>

\* an exception leaves the runner method (hist.error is the exception in
\* flight): the handler answers it and _process_message returns
HandleWorkflowError ==
    /\ node = "raise"
    /\ loop = "process"
    /\ whist' = IF entry = "process_clarification"
                THEN [hist EXCEPT !.step = "raise", !.error = NoException, !.llm_failed = FALSE]
                ELSE whist
    /\ st' = << >>
    /\ node' = "idle"
    /\ hist' = hist0
    /\ outbound' = outbound \o workflow_error_messages(entry, hist.error, received)
    /\ loop' = "receive"
    /\ UNCHANGED <<build, components, connections, workflow_state, entry, cache, requests,
                   inbound, arrived, received, message, state_before>>

NextHandler ==
    \/ ClientSend
    \/ ProcessInvalidMessage
    \/ HandleGreeting
    \/ HandleTestMessage
    \/ HandleClarificationResponseNoWorkflow
    \/ HandleClarificationResponse
    \/ StartPresentationGeneration
    \/ Analyze
    \/ AnalyzeFails
    \/ Clarify
    \/ Structure
    \/ HandleWorkflowState
    \/ HandleWorkflowError
    \/ CacheExpire

\* one connection in its message loop, the workflow run by the handler
SpecHandler == Init /\ [][NextHandler]_vars

(***************************************************************************)
(* Several connections over the session stores (websocket_endpoint,        *)
(* WebSocketHandler.initialize and handle_connection).  The workflow a     *)
(* request runs is reduced to its start and its end; SpecHandler has its   *)
(* steps.                                                                  *)
(***************************************************************************)
\* _send_connection_message(status)
send_connection_message(status, cause) ==
    [type |-> "connection", level |-> status, code |-> "", text |-> "",
     slide_data |-> FALSE, cause |-> cause]

\* f"session_{uuid4().hex[:12]}": an id no token carries and no other
\* connection generates, written as the websocket id it was generated on
uuid4_session_id(ws) == ws

\* RedisCache.get_session: the data when the key exists and Redis answers
\* (ok), None when the key is missing or the read raised
redis_get_session(session_id, ok) == ok /\ session_id \in redis_sessions

\* SupabaseStore.get_session: the row when it exists, is not expired and the
\* query did not raise
supabase_get_session(session_id, ok) == ok /\ session_id \in supabase_sessions

\* ConnectionManager.disconnect on the manager's two dicts
disconnect_active(ws) == active_connections \ {ws}

\* variant of disconnect_mapping that leaves the session mapping in place
disconnect_mapping_kept(ws) == session_mapping

disconnect_mapping(ws) ==
    IF ws \in active_connections
    THEN [session_mapping EXCEPT ![ws] = << >>]
    ELSE session_mapping

\* websocket_endpoint: accept, connection_manager.connect, and
\* authenticate_websocket returns the token's data; the handler is built
Accept(ws) ==
    /\ handlers[ws].pc = "new"
    /\ \E token \in {<< >>} \cup {<<s>> : s \in SessionIds} :
          handlers' = [handlers EXCEPT ![ws].pc = "authenticated",
                                       ![ws].token = token,
                                       ![ws].session_id = token]
    /\ active_connections' = active_connections \cup {ws}
    /\ UNCHANGED <<build, components, handler, workflow_state, st, node, entry, cache,
                   requests, hist, whist, redis_sessions, supabase_sessions,
                   session_mapping>>

\* websocket_endpoint: authenticate_websocket raises; the socket is closed
\* with WS_1008_POLICY_VIOLATION and the finally clause disconnects
AuthenticationFails(ws) ==
    /\ handlers[ws].pc = "new"
    /\ handlers' = [handlers EXCEPT ![ws].pc = "closed", ![ws].disconnects = @ + 1]
    /\ active_connections' = disconnect_active(ws)
    /\ session_mapping' = disconnect_mapping(ws)
    /\ UNCHANGED <<build, components, handler, workflow_state, st, node, entry, cache,
                   requests, hist, whist, redis_sessions, supabase_sessions>>

\* WebSocketHandler.initialize with a token that carries no session id: a
\* new id, and _create_session stores it unless set_session fails (it
\* returns False and the failure is ignored)
InitializeNewSession(ws) ==
    /\ handlers[ws].pc = "authenticated"
    /\ handlers[ws].session_id = << >>
    /\ \E set_ok \in BOOLEAN :
          /\ redis_sessions' = IF set_ok THEN redis_sessions \cup {uuid4_session_id(ws)}
                               ELSE redis_sessions
          /\ handlers' = [handlers EXCEPT ![ws].pc = "initialized",
                                          ![ws].session_id = <<uuid4_session_id(ws)>>,
                                          ![ws].created = TRUE,
                                          ![ws].initialized = TRUE,
                                          ![ws].store_failed = ~set_ok]
    /\ session_mapping' = [session_mapping EXCEPT ![ws] = <<uuid4_session_id(ws)>>]
    /\ UNCHANGED <<build, components, handler, workflow_state, st, node, entry, cache,
                   requests, hist, whist, supabase_sessions, active_connections>>

\* variant of create_session_needed that never creates a session
create_session_never(in_redis, in_supabase) == FALSE

\* initialize: "if not session_data: await self._create_session()"
create_session_needed(in_redis, in_supabase) == ~in_redis /\ ~in_supabase

\* WebSocketHandler.initialize with a token that carries a session id: Redis
\* is asked first, then Supabase; when neither has it _create_session stores
\* a session under the same id
InitializeWithSession(ws) ==
    /\ handlers[ws].pc = "authenticated"
    /\ handlers[ws].session_id # << >>
    /\ LET session_id == handlers[ws].session_id[1] IN
       \E redis_ok \in BOOLEAN, supabase_ok \in BOOLEAN, set_ok \in BOOLEAN :
          LET in_redis    == redis_get_session(session_id, redis_ok)
              in_supabase == ~in_redis /\ supabase_get_session(session_id, supabase_ok)
              create      == create_session_needed(in_redis, in_supabase)
          IN /\ redis_sessions' = IF create /\ set_ok THEN redis_sessions \cup {session_id}
                                  ELSE redis_sessions
             /\ handlers' = [handlers EXCEPT
                   ![ws].pc = "initialized",
                   ![ws].restored = IF in_redis THEN "redis"
                                    ELSE IF in_supabase THEN "supabase"
                                    ELSE IF session_id \in redis_sessions \cup supabase_sessions
                                    THEN "unread" ELSE "absent",
                   ![ws].created = create,
                   ![ws].initialized = TRUE,
                   ![ws].store_failed = \/ ~redis_ok
                                        \/ (~in_redis /\ ~supabase_ok)
                                        \/ (create /\ ~set_ok)]
             /\ session_mapping' = [session_mapping EXCEPT ![ws] = <<session_id>>]
    /\ UNCHANGED <<build, components, handler, workflow_state, st, node, entry, cache,
                   requests, hist, whist, supabase_sessions, active_connections>>

\* WebSocketHandler.initialize raises (get_redis could not connect): the
\* endpoint logs it and its finally clause disconnects; nothing is sent
InitializeRaises(ws) ==
    /\ handlers[ws].pc = "authenticated"
    /\ handlers' = [handlers EXCEPT ![ws].pc = "closed",
                                    ![ws].store_failed = TRUE,
                                    ![ws].disconnects = @ + 1]
    /\ active_connections' = disconnect_active(ws)
    /\ session_mapping' = disconnect_mapping(ws)
    /\ UNCHANGED <<build, components, handler, workflow_state, st, node, entry, cache,
                   requests, hist, whist, redis_sessions, supabase_sessions>>

\* variant of session_exists that does not look at what the read returned
session_exists_unchecked(ws, ok) == TRUE

\* handle_connection: session_exists = await self.redis.get_session(...)
session_exists(ws, ok) == redis_get_session(handlers[ws].session_id[1], ok)

\* handle_connection up to its message loop: the session is read back from
\* Redis; found, "connected" is sent; not found, SESSION_ERROR is sent, the
\* socket is closed and the finally clause disconnects
HandleConnection(ws) ==
    /\ handlers[ws].pc = "initialized"
    /\ \E ok \in BOOLEAN :
          IF session_exists(ws, ok)
          THEN /\ handlers' = [handlers EXCEPT
                     ![ws].pc = "loop",
                     ![ws].sent = Append(@, send_connection_message("connected", 0))]
               /\ UNCHANGED <<active_connections, session_mapping>>
          ELSE /\ handlers' = [handlers EXCEPT
                     ![ws].pc = "closed",
                     ![ws].disconnects = @ + 1,
                     ![ws].store_failed = @ \/ ~ok,
                     ![ws].sent = Append(@, send_error("SESSION_ERROR", 0))]
               /\ active_connections' = disconnect_active(ws)
               /\ session_mapping' = disconnect_mapping(ws)
    /\ UNCHANGED <<build, components, handler, workflow_state, st, node, entry, cache,
                   requests, hist, whist, redis_sessions, supabase_sessions>>

\* the message loop receives a new presentation request and
\* _start_presentation_generation awaits the workflow run (the messages
\* sent from here on are SpecHandler's outbound)
BeginGeneration(ws) ==
    /\ handlers[ws].pc = "loop"
    /\ handlers[ws].processed < MaxMessages
    /\ handlers' = [handlers EXCEPT ![ws].pc = "workflow",
                                    ![ws].processed = @ + 1]
    /\ UNCHANGED <<build, components, handler, workflow_state, st, node, entry, cache,
                   requests, hist, whist, redis_sessions, supabase_sessions,
                   active_connections, session_mapping>>

\* the workflow run of the request ends and _process_message returns
EndGeneration(ws) ==
    /\ handlers[ws].pc = "workflow"
    /\ handlers' = [handlers EXCEPT ![ws].pc = "loop"]
    /\ UNCHANGED <<build, components, handler, workflow_state, st, node, entry, cache,
                   requests, hist, whist, redis_sessions, supabase_sessions,
                   active_connections, session_mapping>>

\* the client disconnects: receive_json raises WebSocketDisconnect, the loop
\* breaks and the finally clause disconnects
Disconnect(ws) ==
    /\ handlers[ws].pc = "loop"
    /\ handlers' = [handlers EXCEPT ![ws].pc = "closed", ![ws].disconnects = @ + 1]
    /\ active_connections' = disconnect_active(ws)
    /\ session_mapping' = disconnect_mapping(ws)
    /\ UNCHANGED <<build, components, handler, workflow_state, st, node, entry, cache,
                   requests, hist, whist, redis_sessions, supabase_sessions>>

\* websocket_endpoint's finally clause after handle_connection returned:
\* handle_connection's own finally clause has already disconnected
EndpointFinally(ws) ==
    /\ handlers[ws].pc = "closed"
    /\ handlers[ws].initialized
    /\ handlers[ws].disconnects = 1
    /\ handlers' = [handlers EXCEPT ![ws].disconnects = @ + 1]
    /\ active_connections' = disconnect_active(ws)
    /\ session_mapping' = disconnect_mapping(ws)
    /\ UNCHANGED <<build, components, handler, workflow_state, st, node, entry, cache,
                   requests, hist, whist, redis_sessions, supabase_sessions>>

NextConnections ==
    \/ \E ws \in WebSockets : Accept(ws)
    \/ \E ws \in WebSockets : AuthenticationFails(ws)
    \/ \E ws \in WebSockets : InitializeNewSession(ws)
    \/ \E ws \in WebSockets : InitializeWithSession(ws)
    \/ \E ws \in WebSockets : InitializeRaises(ws)
    \/ \E ws \in WebSockets : HandleConnection(ws)
    \/ \E ws \in WebSockets : BeginGeneration(ws)
    \/ \E ws \in WebSockets : EndGeneration(ws)
    \/ \E ws \in WebSockets : Disconnect(ws)
    \/ \E ws \in WebSockets : EndpointFinally(ws)

\* no connection yet; each store holds any of the sessions tokens can name
InitConnections ==
    /\ InitWorkflow
    /\ ~LANGGRAPH_AVAILABLE
    /\ ~PYDANTIC_AI_AVAILABLE
    /\ InitHandler
    /\ redis_sessions \in SUBSET SessionIds
    /\ supabase_sessions \in SUBSET SessionIds
    /\ active_connections = {}
    /\ session_mapping = [ws \in WebSockets |-> << >>]
    /\ handlers = [ws \in WebSockets |-> no_handler]
    /\ InitComponents

SpecConnections == InitConnections /\ [][NextConnections]_vars

(***************************************************************************)
(* The Director's clarification engine (agents/director_in.py)             *)
(***************************************************************************)
\* what run_llm returns to _run_clarification_generation: an object whose
\* data is a list of n question dicts, anything else (the mock string of
\* run_llm when pydantic_ai is missing is one), or an exception
LlmResults ==
    IF PYDANTIC_AI_AVAILABLE
    THEN {[kind |-> "list", n |-> k] : k \in 0..MaxLlmQuestions}
         \cup {[kind |-> "other", n |-> 0], [kind |-> "raise", n |-> 0]}
    ELSE {[kind |-> "other", n |-> 0]}

\* _run_clarification_generation: the number of questions it returns for a
\* missing_information list of the given length and an LLM result that is
\* not an exception
run_clarification_generation(missing_info, result) ==
    IF result.kind = "list" THEN result.n
    ELSE IF missing_info < 5 THEN missing_info ELSE 5

\* DirectorInboundAgent.__init__ run again: each workflow node builds its
\* own DirectorInboundAgent(), whose clarification_history is empty
NewDirector ==
    /\ \E s \in SessionIds : clarification_history[s] # << >>
    /\ clarification_history' = [s \in SessionIds |-> << >>]
    /\ director_output' = << >>
    /\ UNCHANGED <<build, workflow_vars, handler, connections, rate_limiting, mock_llm, rounds_issued,
                   presentation, clock, locking>>

\* _generate_clarifications for a session.  Past the round limit it hands
\* over to _create_structure_from_partial_info; otherwise it asks the LLM,
\* whose exception it does not catch, builds the round with
\* current_round = round_number and appends it to the history.
GenerateClarifications ==
    \E s \in SessionIds, missing_info \in 0..MaxMissing, result \in LlmResults :
        /\ rounds_issued[s] < MaxRoundsIssued
        /\ LET round_number == Len(clarification_history[s]) + 1 IN
           IF round_number > max_clarification_rounds
           THEN /\ director_output' = <<[output_type |-> "structure", questions |-> 0,
                                         round_number |-> round_number]>>
                /\ UNCHANGED <<clarification_history, rounds_issued>>
           ELSE IF result.kind = "raise"
           THEN /\ director_output' = <<[output_type |-> "raised", questions |-> 0,
                                         round_number |-> round_number]>>
                /\ UNCHANGED <<clarification_history, rounds_issued>>
           ELSE LET questions == run_clarification_generation(missing_info, result) IN
                /\ clarification_history' =
                      [clarification_history EXCEPT ![s] =
                          Append(@, [questions     |-> questions,
                                     max_rounds    |-> max_clarification_rounds,
                                     current_round |-> round_number])]
                /\ director_output' = <<[output_type |-> "clarification",
                                         questions |-> questions,
                                         round_number |-> round_number]>>
                /\ rounds_issued' = [rounds_issued EXCEPT ![s] = @ + 1]
        /\ UNCHANGED <<build, workflow_vars, handler, connections, rate_limiting, mock_llm, presentation,
                       clock, locking>>

\* _determine_next_agents: the agents for a structure, from the keywords its
\* slide outlines mention
determine_next_agents(structure) ==
    <<"ux_architect", "researcher">>
    \o (IF "visual" \in structure.mentions THEN <<"visual_designer">> ELSE << >>)
    \o (IF structure.mentions \cap {"chart", "data"} # {} THEN <<"data_analyst">> ELSE << >>)
    \o (IF structure.mentions \cap {"diagram", "process"} # {} THEN <<"ux_analyst">> ELSE << >>)

NextDirector ==
    \/ GenerateClarifications
    \/ NewDirector

SpecDirector == Init /\ [][NextDirector]_vars

(***************************************************************************)
(* The Presentation model (models/presentation.py)                         *)
(***************************************************************************)
\* validate_slide_numbers and validate_minimum_slides, which run when a
\* Presentation is constructed: TRUE when the slide list is accepted
validate_slides(v) ==
    /\ Len(v) >= 1
    /\ \A i \in DOMAIN v : v[i].slide_number = i

\* "for i, s in enumerate(self.slides): s.slide_number = i + 1"
renumber(v) == [i \in DOMAIN v |-> [v[i] EXCEPT !.slide_number = i]]

\* list.insert(position, slide) for 0 <= position <= len
insert(v, position, slide) ==
    SubSeq(v, 1, position) \o <<slide>> \o SubSeq(v, position + 1, Len(v))

\* a Presentation that its validators accepted, its slides having distinct
\* ids (the uuid default of Slide.slide_id)
InitPresentation ==
    /\ slides \in { v \in UNION {[1..n -> [slide_id : SlideIds, slide_number : 1..MaxSlides]] : n \in 1..2} :
                       /\ validate_slides(v)
                       /\ \A i, j \in DOMAIN v : v[i].slide_id = v[j].slide_id => i = j }
    /\ slides_result = "none"

\* add_slide(slide, position): position None is len(self.slides); the new
\* slide has a fresh id and any slide_number
AddSlide ==
    /\ Len(slides) < MaxSlides
    /\ \E slide_id \in SlideIds, slide_number \in 1..MaxSlides, position \in 0..Len(slides) :
          /\ \A i \in DOMAIN slides : slides[i].slide_id # slide_id
          /\ slides' = renumber(insert(slides, position,
                                       [slide_id |-> slide_id, slide_number |-> slide_number]))
    /\ slides_result' = "None"
    /\ UNCHANGED <<build, workflow_vars, handler, connections, rate_limiting, mock_llm, director,
                   clock, locking>>

\* remove_slide(slide_id): the first slide with the id is popped and the
\* rest renumbered (True); False when no slide has the id
RemoveSlide ==
    /\ \E slide_id \in SlideIds :
          IF \E i \in DOMAIN slides : slides[i].slide_id = slide_id
          THEN LET i == CHOOSE k \in DOMAIN slides :
                           /\ slides[k].slide_id = slide_id
                           /\ \A m \in 1..(k - 1) : slides[m].slide_id # slide_id
               IN /\ slides' = renumber(SubSeq(slides, 1, i - 1)
                                        \o SubSeq(slides, i + 1, Len(slides)))
                  /\ slides_result' = "True"
          ELSE /\ slides' = slides
               /\ slides_result' = "False"
    /\ UNCHANGED <<build, workflow_vars, handler, connections, rate_limiting, mock_llm, director,
                   clock, locking>>

\* the ids reorder_slides has gone through when it stops: all of them, or
\* those before the first id that is not in slide_map
reordered_prefix(slide_ids) ==
    LET known(i) == \E k \in DOMAIN slides : slides[k].slide_id = slide_ids[i]
        unknown  == {i \in DOMAIN slide_ids : ~known(i)}
    IN IF unknown = {} THEN Len(slide_ids)
       ELSE (CHOOSE i \in unknown : \A j \in unknown : i <= j) - 1

\* the slide_number a Slide object has after reorder_slides went through the
\* first n ids: that of the last position among them that names it, since
\* each pass does slide.slide_number = i + 1 on the object in slide_map
number_after(slide, slide_ids, n) ==
    LET at == {i \in 1..n : slide_ids[i] = slide.slide_id}
    IN IF at = {} THEN slide.slide_number
       ELSE CHOOSE i \in at : \A j \in at : j <= i

\* reorder_slides(slide_ids) with a list of the right length.  An unknown id
\* raises ValueError after the slides named before it were renumbered, the
\* list itself being left as it was; otherwise the list becomes the slides
\* the ids name, in that order.
ReorderSlides ==
    /\ slides # << >>
    /\ \E slide_ids \in [1..Len(slides) -> SlideIds] :
          LET n == reordered_prefix(slide_ids) IN
          IF n < Len(slide_ids)
          THEN /\ slides' = [i \in DOMAIN slides |->
                                [slides[i] EXCEPT !.slide_number =
                                    number_after(slides[i], slide_ids, n)]]
               /\ slides_result' = "ValueError"
          ELSE /\ slides' = [i \in DOMAIN slide_ids |->
                                [slide_id     |-> slide_ids[i],
                                 slide_number |->
                                    number_after([slide_id |-> slide_ids[i], slide_number |-> i],
                                                 slide_ids, n)]]
               /\ slides_result' = "None"
    /\ UNCHANGED <<build, workflow_vars, handler, connections, rate_limiting, mock_llm, director,
                   clock, locking>>

NextPresentation ==
    \/ AddSlide
    \/ RemoveSlide
    \/ ReorderSlides

\* the program with one Presentation constructed
InitWithPresentation ==
    /\ InitWorkflow /\ InitHandler /\ InitNoConnections
    /\ mock_llm = << >> /\ InitDirector /\ InitPresentation /\ InitRedisCache

SpecPresentation == InitWithPresentation /\ [][NextPresentation]_vars

(***************************************************************************)
(* Distributed locking (storage/redis_cache.py)                            *)
(***************************************************************************)
\* time passes by one tick of the timestamp's resolution
Tick ==
    /\ clock < MaxTime
    /\ clock' = clock + 1
    /\ UNCHANGED <<build, workflow_vars, handler, connections, rate_limiting, mock_llm, director,
                   presentation, locking>>

\* lock_token: sha256 of f"{resource}:{timestamp}", kept as the pair hashed
lock_token(resource, timestamp) == <<resource, timestamp>>

\* acquire_lock up to its retry loop: lock_token is computed once, from the
\* resource and the current timestamp
BeginAcquire(c) ==
    /\ lock_callers[c].pc = "idle"
    /\ lock_callers' = [lock_callers EXCEPT ![c] =
                           [pc |-> "acquiring", token |-> <<lock_token("resource", clock)>>,
                            attempts |-> 0, released |-> "none"]]
    /\ UNCHANGED <<build, workflow_vars, handler, connections, rate_limiting, mock_llm, director,
                   presentation, clock, lock_value, foreign_release>>

\* SET lock_key lock_token NX EX ttl: TRUE when the key did not exist
set_nx == lock_value = << >>

\* one pass of acquire_lock's retry loop: the SET succeeds and the token is
\* returned, or the key exists (sleep), or Redis raises (logged); after
\* retry_times passes None is returned
TryAcquire(c) ==
    /\ lock_callers[c].pc = "acquiring"
    /\ \E redis_raises \in BOOLEAN :
          IF ~redis_raises /\ set_nx
          THEN /\ lock_value' = <<[token |-> lock_callers[c].token[1], set_by |-> c,
                                   set_at |-> clock]>>
               /\ lock_callers' = [lock_callers EXCEPT ![c].pc = "holding",
                                                       ![c].attempts = @ + 1]
          ELSE /\ lock_value' = lock_value
               /\ lock_callers' = [lock_callers EXCEPT
                                      ![c].attempts = @ + 1,
                                      ![c].pc = IF lock_callers[c].attempts + 1 >= retry_times
                                                THEN "failed" ELSE "acquiring"]
    /\ UNCHANGED <<build, workflow_vars, handler, connections, rate_limiting, mock_llm, director,
                   presentation, clock, foreign_release>>

\* acquire_lock returned None and the caller goes on without the lock
GiveUp(c) ==
    /\ lock_callers[c].pc = "failed"
    /\ lock_callers' = [lock_callers EXCEPT ![c] = no_call]
    /\ UNCHANGED <<build, workflow_vars, handler, connections, rate_limiting, mock_llm, director,
                   presentation, clock, lock_value, foreign_release>>

\* the key's TTL (a whole number of seconds, at least one tick) runs out
LockExpires ==
    /\ lock_value # << >>
    /\ clock > lock_value[1].set_at
    /\ lock_value' = << >>
    /\ UNCHANGED <<build, workflow_vars, handler, connections, rate_limiting, mock_llm, director,
                   presentation, clock, lock_callers, foreign_release>>

\* release_lock(resource, token) by a caller that was given a token: the Lua
\* script deletes the key when its value is the token; False when it is not
\* or when Redis raises
ReleaseLock(c) ==
    /\ lock_callers[c].pc = "holding"
    /\ \E redis_raises \in BOOLEAN :
          IF /\ ~redis_raises
             /\ lock_value # << >>
             /\ lock_value[1].token = lock_callers[c].token[1]
          THEN /\ lock_value' = << >>
               /\ foreign_release' = (foreign_release \/ lock_value[1].set_by # c)
               /\ lock_callers' = [lock_callers EXCEPT ![c].pc = "idle",
                                                       ![c].released = "True"]
          ELSE /\ UNCHANGED <<lock_value, foreign_release>>
               /\ lock_callers' = [lock_callers EXCEPT ![c].pc = "idle",
                                                       ![c].released = "False"]
    /\ UNCHANGED <<build, workflow_vars, handler, connections, rate_limiting, mock_llm, director,
                   presentation, clock>>

NextLocking ==
    \/ Tick
    \/ LockExpires
    \/ \E c \in Callers : BeginAcquire(c)
    \/ \E c \in Callers : TryAcquire(c)
    \/ \E c \in Callers : GiveUp(c)
    \/ \E c \in Callers : ReleaseLock(c)

SpecLocking == Init /\ [][NextLocking]_vars

(***************************************************************************)
(* Rate limiting (storage/redis_cache.py)                                  *)
(***************************************************************************)
\* the except branch of check_rate_limit: fail open
fail_open == <<[is_allowed |-> TRUE, requests_made |-> 0]>>

\* check_rate_limit up to its first await: now is read once and the entries
\* with a score up to window_start are removed
RemoveOldEntries(c) ==
    /\ rate_callers[c].pc = "idle"
    /\ rate_calls < MaxCalls
    /\ rate_calls' = rate_calls + 1
    /\ \E redis_raises \in BOOLEAN :
          IF redis_raises
          THEN /\ rate_callers' = [rate_callers EXCEPT ![c] =
                                      [no_check EXCEPT !.result = fail_open]]
               /\ UNCHANGED rate_entries
          ELSE /\ rate_entries' = {e \in rate_entries : e > clock - window_seconds}
               /\ rate_callers' = [rate_callers EXCEPT ![c] =
                                      [pc |-> "removed", now |-> <<clock>>,
                                       current_count |-> 0, result |-> << >>]]
    /\ UNCHANGED <<build, workflow_vars, handler, connections, mock_llm, director,
                   presentation, clock, locking, rate_admitted>>

\* zcard, and the refusal when the count has reached the limit
CountEntries(c) ==
    /\ rate_callers[c].pc = "removed"
    /\ \E redis_raises \in BOOLEAN :
          LET current_count == Cardinality(rate_entries) IN
          rate_callers' = [rate_callers EXCEPT ![c] =
              IF redis_raises
              THEN [no_check EXCEPT !.result = fail_open]
              ELSE IF current_count >= limit
              THEN [no_check EXCEPT !.result = <<[is_allowed |-> FALSE,
                                                  requests_made |-> current_count]>>]
              ELSE [@ EXCEPT !.pc = "counted", !.current_count = current_count]]
    /\ UNCHANGED <<build, workflow_vars, handler, connections, mock_llm, director,
                   presentation, clock, locking, rate_entries, rate_admitted, rate_calls>>

\* zadd of {str(now): now}, expire and the return of (True, current_count + 1);
\* zadd or expire may raise
AddEntry(c) ==
    /\ rate_callers[c].pc = "counted"
    /\ \E raises \in {"none", "zadd", "expire"} :
          LET now == rate_callers[c].now[1] IN
          /\ rate_entries' = IF raises = "zadd" THEN rate_entries
                              ELSE rate_entries \cup {now}
          /\ rate_admitted' = IF raises = "none"
                               THEN [rate_admitted EXCEPT ![now] = @ + 1]
                               ELSE rate_admitted
          /\ rate_callers' = [rate_callers EXCEPT ![c] =
                 [no_check EXCEPT !.result =
                    IF raises = "none"
                    THEN <<[is_allowed |-> TRUE,
                            requests_made |-> rate_callers[c].current_count + 1]>>
                    ELSE fail_open]]
    /\ UNCHANGED <<build, workflow_vars, handler, connections, mock_llm, director,
                   presentation, clock, locking, rate_calls>>

NextRateLimit ==
    \/ Tick
    \/ \E c \in Callers : RemoveOldEntries(c)
    \/ \E c \in Callers : CountEntries(c)
    \/ \E c \in Callers : AddEntry(c)

SpecRateLimit == Init /\ [][NextRateLimit]_vars

\* calls admitted with a timestamp in the window of window_seconds that ends at t
RECURSIVE admitted_in_window(_, _)
admitted_in_window(t, width) ==
    IF width = 0 \/ t < 0 THEN 0
    ELSE rate_admitted[t] + admitted_in_window(t - 1, width - 1)

(***************************************************************************)
(* Properties                                                              *)
(***************************************************************************)
TerminalPhases == {"completed", "error"}

ImportStyleClasses == {"ImportError", "ModuleNotFoundError", "AttributeError"}

\* C1: once the handler's WorkflowState is in `completed` or `error`, no later
\* operation on that same state (same request_id) changes its current_phase.
TerminalPhaseIsFinal ==
    [][ ( /\ workflow_state # << >>
          /\ workflow_state' # << >>
          /\ workflow_state'[1].request_id = workflow_state[1].request_id
          /\ workflow_state[1].current_phase \in TerminalPhases )
        => workflow_state'[1].current_phase = workflow_state[1].current_phase ]_vars

\* C2: when every analysis of a WorkflowState scored below the threshold and
\* no step failed, then once the responses processed number the round limit
\* the state the runner returned is in `generation`.
RoundLimitForcesGeneration ==
    ( /\ node = "idle"
      /\ workflow_state # << >>
      /\ whist.step = "return"
      /\ whist.failed = 0
      /\ whist.analyses = Len(workflow_state[1].clarification_responses) + 1
      /\ whist.max_score < min_completeness_score
      /\ Len(workflow_state[1].clarification_responses) >= max_clarification_rounds )
    => workflow_state[1].current_phase = "generation"

\* C3: when run_llm fails during the one step of a start_generation call, the
\* call still ends with a state in `clarification` or `generation`.
LlmFailureFallsBack ==
    ( /\ entry = "start_generation"
      /\ hist.step = "analyze_failed"
      /\ hist.llm_failed )
    => ( /\ node = "return"
         /\ st[1].current_phase \in {"clarification", "generation"} )

\* C4: a start_generation call whose analysis scored at or above the
\* threshold ends with current_phase = `completed` and a final_presentation.
HappyPathCompletes ==
    ( /\ entry = "start_generation"
      /\ node \in {"return", "raise"}
      /\ hist.analyses = 1
      /\ hist.max_score >= min_completeness_score )
    => ( /\ node = "return"
         /\ st[1].current_phase = "completed"
         /\ st[1].final_presentation # << >> )

ImportStyleGoesToError ==
    ( /\ hist.step = "analyze_failed"
      /\ node = "return"
      /\ hist.error.cls \in ImportStyleClasses )
    => st[1].current_phase = "error"

\* C9: right after an analysis step that returned normally, current_phase is
\* `clarification` exactly when the stored analysis' completeness score is
\* below 0.8 and `generation` exactly when it is not, and needs_clarification
\* is true exactly in the first case.
AnalysisBranchesOnScore ==
    hist.step = "analyze" =>
        LET score == st[1].requirement_analysis[1] IN
        /\ (st[1].current_phase = "clarification") <=> (score < 8)
        /\ (st[1].current_phase = "generation") <=> (score >= 8)
        /\ st[1].needs_clarification <=> (score < 8)

\* C9 witness: an analysis scoring exactly 0.8 went to generation
AnalysisAtThreshold ==
    /\ hist.step = "analyze"
    /\ st[1].requirement_analysis = <<8>>
    /\ st[1].current_phase = "generation"
    /\ ~st[1].needs_clarification

\* the WorkflowState objects that exist: the handler's and the running one
WorkflowStates ==
    {workflow_state[i] : i \in DOMAIN workflow_state} \cup {st[i] : i \in DOMAIN st}

ListSet(l) == {l[i] : i \in DOMAIN l}

\* C5: a WorkflowState is in `assembly` only if its active_agents and its
\* completed_agents are the same set.
BarrierBeforeAssembly ==
    \A s \in WorkflowStates :
        s.current_phase = "assembly" =>
            ListSet(s.active_agents) = ListSet(s.completed_agents)

\* C5 witness: the generation step has just moved a state with active agents
\* to assembly
AssemblyAfterGeneration ==
    /\ hist.step = "generate"
    /\ st[1].current_phase = "assembly"
    /\ Len(st[1].active_agents) = 3

IsPrefix(a, b) == Len(a) <= Len(b) /\ \A i \in DOMAIN a : a[i] = b[i]

ClarificationResumesAtResponseStep ==
    /\ [][ ( /\ hist' # hist
             /\ hist'.step \in {"analyze", "clarify"}
             /\ st'[1].current_phase = "clarification" )
           => node' \in {"clarify", "return"} ]_vars
    /\ [][ ( /\ node = "idle"
             /\ node' # "idle"
             /\ entry' = "process_clarification" )
           => node' = "process_response" ]_vars

\* C12: once a user_input with text "hi" has been processed, the handler's
\* WorkflowState is in `greeting`, an informational chat message was sent and
\* the state holds no clarification round.
GreetingResolvesPhase ==
    ( /\ loop = "receive"
      /\ message # << >>
      /\ message[1].raw.type = "user_input"
      /\ message[1].raw.text = "hi" )
    => ( /\ workflow_state # << >>
         /\ workflow_state[1].current_phase = "greeting"
         /\ workflow_state[1].clarification_rounds = << >>
         /\ \E i \in DOMAIN outbound :
               outbound[i].type = "director_message" /\ outbound[i].level = "info" )

KnownMessageTypes == {"user_input", "director_message", "agent_message",
                      "frontend_action", "system", "connection"}

\* C13: processing a message of an unknown type sends a system message of
\* level error and leaves the handler's workflow_state (and the workflow) as
\* it was.
UnknownTypeLeavesWorkflow ==
    [][ ( /\ received' = received + 1
          /\ Head(inbound).raw.type \notin KnownMessageTypes )
        => ( /\ \E i \in DOMAIN outbound' :
                   /\ outbound'[i].type = "system"
                   /\ outbound'[i].level = "error"
                   /\ outbound'[i].cause = received'
             /\ workflow_state' = workflow_state
             /\ st' = st
             /\ node' = node ) ]_vars

\* C13 witness: a message of an unknown type was answered with a system
\* error while the handler held a WorkflowState
UnknownTypeAnswered ==
    /\ message # << >>
    /\ message[1].raw.type = "bogus"
    /\ loop = "receive"
    /\ workflow_state # << >>
    /\ outbound = <<send_error_str("ERROR", "Unknown message type", received)>>

\* C18: the k-th message receive_json returns is the k-th the client sent,
\* it is returned only when the processing of the one before has finished
\* (no workflow step in flight), and every message sent to the client since
\* was caused by it.
MessagesInReceiptOrder ==
    /\ [](/\ (loop = "receive" => node = "idle")
          /\ \A i \in DOMAIN outbound : outbound[i].cause = received)
    /\ [][ received' # received
           => ( /\ received' = received + 1
                /\ message'[1].seq = received'
                /\ loop = "receive"
                /\ node = "idle" ) ]_vars

\* C18 witness: the second message, a request, is being processed by a
\* workflow step while the third waits in the socket
MessageWaitsForEarlierOne ==
    /\ loop = "process"
    /\ node = "analyze"
    /\ received = 2
    /\ inbound # << >>
    /\ Head(inbound).seq = 3

\* C19: a response is appended to the handler's WorkflowState only when that
\* state has an open clarification round (it is in `clarification` and holds
\* a round) for the response to name.
ResponseMatchesOpenRound ==
    [][ ( /\ workflow_state # << >>
          /\ workflow_state' # << >>
          /\ workflow_state'[1].request_id = workflow_state[1].request_id
          /\ Len(workflow_state'[1].clarification_responses) >
                Len(workflow_state[1].clarification_responses) )
        => ( /\ workflow_state[1].current_phase = "clarification"
             /\ workflow_state[1].clarification_rounds # << >> ) ]_vars

\* C20: a workflow step does not complete while a message waits in the
\* socket: the waiting message is received and answered first.
LoopResponsiveDuringStep ==
    [][ ( /\ node \in {"analyze", "clarify", "structure"}
          /\ inbound # << >> )
        => node' = node ]_vars

\* messages of a given type and level or code among those a connection was
\* sent before its message loop
SentConnected(h) ==
    \E i \in DOMAIN h.sent : h.sent[i].type = "connection" /\ h.sent[i].level = "connected"

SentError(h) ==
    \E i \in DOMAIN h.sent : h.sent[i].type = "system" /\ h.sent[i].level = "error"

SentSessionError(h) ==
    \E i \in DOMAIN h.sent : h.sent[i].type = "system" /\ h.sent[i].code = "SESSION_ERROR"

\* C14: `connected` is sent only from the confirmation step and only when
\* Redis holds the handler's session; when the confirmation fails a
\* SESSION_ERROR is sent and the socket closed; a connection that was sent
\* SESSION_ERROR is closed, was never sent `connected` and has processed no
\* inbound message.
ConnectedOnlyAfterConfirmation ==
    /\ [][ \A ws \in WebSockets :
             (SentConnected(handlers'[ws]) /\ ~SentConnected(handlers[ws]))
             => ( /\ handlers[ws].pc = "initialized"
                  /\ handlers[ws].session_id # << >>
                  /\ handlers[ws].session_id[1] \in redis_sessions ) ]_vars
    /\ [][ \A ws \in WebSockets :
             ( /\ handlers[ws].pc = "initialized"
               /\ handlers'[ws].pc # "initialized"
               /\ ~SentConnected(handlers'[ws]) )
             => ( /\ SentSessionError(handlers'[ws])
                  /\ handlers'[ws].pc = "closed" ) ]_vars
    /\ [](\A ws \in WebSockets :
             SentSessionError(handlers[ws])
             => ( /\ handlers[ws].pc = "closed"
                  /\ ~SentConnected(handlers[ws])
                  /\ handlers[ws].processed = 0
                  /\ ws \notin active_connections ))

\* C14 witness: one connection was confirmed, sent `connected` and has
\* processed a message; another failed the confirmation and is closed
ConfirmedAndRefused ==
    \E ws1 \in WebSockets, ws2 \in WebSockets :
        /\ SentConnected(handlers[ws1])
        /\ handlers[ws1].processed > 0
        /\ SentSessionError(handlers[ws2])
        /\ handlers[ws2].pc = "closed"

ExistingSessionRestored ==
    \A ws \in WebSockets :
        (handlers[ws].initialized /\ handlers[ws].restored \in {"redis", "supabase"})
        => ( /\ ~handlers[ws].created
             /\ (handlers[ws].pc # "initialized" /\ ~handlers[ws].store_failed)
                   => (SentConnected(handlers[ws]) /\ ~SentError(handlers[ws])) )

\* C17: no two connections of one session are both inside a workflow run.
OneWorkflowPerSession ==
    \A ws1 \in WebSockets, ws2 \in WebSockets :
        ( /\ ws1 # ws2
          /\ handlers[ws1].pc = "workflow"
          /\ handlers[ws2].pc = "workflow" )
        => handlers[ws1].session_id # handlers[ws2].session_id

\* the phases in which a run that caught a failure ends
ErrorPhases == {"error", "error_recovery"}

\* C21: when a run returns a state whose phase is `error` or
\* `error_recovery`, the handler sends an error message for it before it
\* goes back to receiving.
ErrorPhaseReported ==
    [][ ( /\ node = "return"
          /\ node' = "idle"
          /\ st # << >>
          /\ st[1].current_phase \in ErrorPhases )
        => \E i \in DOMAIN outbound' :
              /\ i > Len(outbound)
              /\ outbound'[i].level = "error" ]_vars

\* C22: when a run returns a state whose phase is `clarification`, the
\* handler sends a message of type question for it.
ClarificationQuestionsSent ==
    [][ ( /\ node = "return"
          /\ node' = "idle"
          /\ st # << >>
          /\ st[1].current_phase = "clarification" )
        => \E i \in DOMAIN outbound' :
              /\ i > Len(outbound)
              /\ outbound'[i].level = "question" ]_vars

\* C23: no message the handler sends quotes the text of an exception: what a
\* client reads after a failure is the same whatever the exception said.
OutboundTextGeneric ==
    \A i \in DOMAIN outbound : outbound[i].text = ""

\* C24: start_generation and process_clarification never raise: no run ends
\* with an exception leaving the runner method.
RunnerNeverRaises == node # "raise"

\* the values of hist.step after a step that raised
FailedSteps == {"analyze_failed", "structure_failed"}

\* C25: an exception raised while a message is processed is answered with an
\* error message for that message and the loop is back at receive_json: one
\* that validate_message raises, and one that a workflow step raises.
ExceptionContained ==
    [][ /\ (loop = "process" /\ loop' # "process" /\ hist.step \in FailedSteps)
           => /\ loop' = "receive"
              /\ \E i \in DOMAIN outbound' :
                    /\ i > Len(outbound)
                    /\ outbound'[i].level = "error"
                    /\ outbound'[i].cause = received
        /\ (received' = received + 1 /\ ~validate_message(Head(inbound).raw))
           => /\ loop' = "receive"
              /\ \E i \in DOMAIN outbound' :
                    /\ outbound'[i].level = "error"
                    /\ outbound'[i].cause = received' ]_vars

\* C26: an inbound connection message with status ping is answered with
\* exactly one connection message with status pong and nothing else.
PingAnsweredWithPong ==
    [][ ( /\ received' = received + 1
          /\ Head(inbound).raw.type = "connection"
          /\ Head(inbound).raw.status = "ping" )
        => outbound' = <<send_connection_message("pong", received')>> ]_vars

\* C27: no DirectorMessage is sent that has neither chat_data nor slide_data.
NoEmptyDirectorMessage ==
    \A i \in DOMAIN outbound :
        outbound[i].type = "director_message"
        => (outbound[i].level # "" \/ outbound[i].slide_data)

ErrorCountCountsCaughtFailures ==
    /\ [](st # << >> => st[1].error_count = hist.caught)
    /\ [](workflow_state # << >> => workflow_state[1].error_count = whist.caught)
    /\ []((st # << >> /\ hist.step = "enter" /\ entry = "start_generation")
            => st[1].error_count = 0)
    /\ [][ ( /\ st # << >>
             /\ st' # << >>
             /\ st'[1].request_id = st[1].request_id )
           => /\ st'[1].error_count >= st[1].error_count
              /\ st'[1].error_count =
                    IF hist'.caught = hist.caught + 1
                    THEN st[1].error_count + 1
                    ELSE st[1].error_count ]_vars

\* C30 witness: the second failure caught on one WorkflowState
SecondFailureCounted ==
    /\ st # << >>
    /\ node = "return"
    /\ hist.step = "analyze_failed"
    /\ hist.caught = 2
    /\ st[1].error_count = 2

QuestionSetSizeBounded ==
    \A i \in DOMAIN director_output :
        director_output[i].output_type = "clarification"
        => (director_output[i].questions >= 1 /\ director_output[i].questions <= 5)

\* C34: every round issued has current_round <= max_rounds, and no more than
\* max_rounds rounds are ever issued for one session.
RoundsWithinLimit ==
    \A s \in SessionIds :
        /\ rounds_issued[s] <= max_clarification_rounds
        /\ \A i \in DOMAIN clarification_history[s] :
              clarification_history[s][i].current_round
                 <= clarification_history[s][i].max_rounds

\* C35: a WorkflowState in `generation` has a presentation structure and its
\* active_agents are what the routing function gives for that structure.
ActiveAgentsFromRouting ==
    \A s \in WorkflowStates :
        s.current_phase = "generation"
        => /\ s.presentation_structure # << >>
           /\ s.active_agents = determine_next_agents(s.presentation_structure[1])

\* C36: after any sequence of add_slide, remove_slide and reorder_slides
\* calls the presentation has at least one slide, the slide_number values
\* are 1..n in list order, and no slide appears twice.
SlidesNumberedInOrder ==
    slides_result # "none"
    => /\ Len(slides) >= 1
       /\ \A i \in DOMAIN slides : slides[i].slide_number = i
       /\ \A i, j \in DOMAIN slides : slides[i].slide_id = slides[j].slide_id => i = j

\* C37: while a lock is set no other acquire_lock is given a token, a
\* release_lock never deletes a lock that another caller set, and
\* acquire_lock makes at most retry_times attempts.
LockReleasedOnlyByHolder ==
    [][ /\ ~foreign_release'
        /\ \A c \in Callers :
              /\ lock_callers'[c].attempts <= retry_times
              /\ (lock_callers[c].pc = "acquiring" /\ lock_callers'[c].pc = "holding")
                 => lock_value = << >> ]_vars

\* C38: in every window of window_seconds at most limit calls of
\* check_rate_limit for the identifier are admitted.
AtMostLimitAdmitted ==
    \A t \in 0..MaxTime : admitted_in_window(t, window_seconds) <= limit

\* C39: a clarification response received without a workflow state is
\* answered with NO_WORKFLOW and changes neither the handler's state nor the
\* workflow; and when the run of a clarification response raises, the
\* handler's workflow_state is the one it had when the message was received.
FailedClarificationLeavesState ==
    [][ /\ ( /\ received' = received + 1
              /\ message'[1].raw.type = "user_input"
              /\ validate_message(message'[1].raw)
              /\ message'[1].raw.text \notin Greetings \cup TestCommands
              /\ message'[1].raw.response_to # << >>
              /\ workflow_state = << >> )
           => /\ outbound' = <<send_error("NO_WORKFLOW", received')>>
              /\ UNCHANGED <<workflow_state, st, node, requests>>
        /\ ( /\ entry = "process_clarification"
              /\ node = "raise"
              /\ node' = "idle" )
           => workflow_state' = state_before ]_vars

\* C40: every connection that has a session mapping is an active
\* connection; a connection that has ended is in neither map; and a
\* disconnect repeated for a connection changes neither map.
MappingWithinActiveConnections ==
    /\ [](\A ws \in WebSockets :
             /\ session_mapping[ws] # << >> => ws \in active_connections
             /\ handlers[ws].pc = "closed"
                => (ws \notin active_connections /\ session_mapping[ws] = << >>))
    /\ [][ \A ws \in WebSockets :
             (handlers[ws].disconnects >= 1 /\ handlers'[ws].disconnects > handlers[ws].disconnects)
             => UNCHANGED <<active_connections, session_mapping>> ]_vars

\* C40 witness: one connection is mapped to its session and active while
\* another, which had been mapped, has ended and was disconnected twice
MappedAndDisconnectedTwice ==
    \E ws1 \in WebSockets, ws2 \in WebSockets :
        /\ session_mapping[ws1] # << >>
        /\ ws1 \in active_connections
        /\ handlers[ws2].initialized
        /\ handlers[ws2].disconnects = 2
        /\ ws2 \notin active_connections
        /\ session_mapping[ws2] = << >>

====
